---- MODULE Spec2Model ----
(***************************************************************************)
(* The ingestion pipeline of ingest.py: build a time window and a query,   *)
(* fetch the records of the remote resource, clean them with pandas,       *)
(* upsert them into the sqlite table "mix" keyed by DATETIME.              *)
(*                                                                         *)
(* A cell of a DataFrame or of a table row is a record [isna, v]: NA is    *)
(* pandas' NaT / NaN and sqlite's NULL, Value(n) a number.  A Timestamp is *)
(* a Value holding milliseconds after 2025-10-20T20:30:00Z; the text key   *)
(* "%Y-%m-%dT%H:%M:%SZ" is a Value holding whole seconds after that        *)
(* instant (the text has a fixed width, so its order and equality are      *)
(* those of the seconds count).                                            *)
(***************************************************************************)
EXTENDS Integers, Sequences, FiniteSets, TLC

VARIABLES
    pc,          \* the statement of main() to execute next
    window,      \* (start_iso, end_iso) of build_time_window
    sql,         \* the query text of build_sql_query
    remote,      \* what the remote resource holds for the window
    status,      \* resp.status_code of the last requests.get (0: none yet)
    records,     \* the list fetch_records_from_api returned
    df,          \* the DataFrame of to_dataframe_clean
    upsert_sql,  \* the statement of build_upsert_sql
    rows,        \* the parameter rows of build_rows
    con,         \* the sqlite3 connection: "none", "open", "closed"
    txn,         \* the connection's open transaction and its view of the table
    disk,        \* the committed database file: what every reader sees
    out,         \* what the run printed
    exitcode,    \* the process's exit status (-1: still running)
    err,         \* the exception that ended the run ("" when none)
    pre,         \* the database file as it was when the run started
    last         \* the last run that ended by itself (it returned, or its input
                 \* made it raise) against the remote data as they are now

vars == <<pc, window, sql, remote, status, records, df, upsert_sql, rows, con,
          txn, disk, out, exitcode, err, pre, last>>

(***************************************************************************)
(* Configuration                                                           *)
(***************************************************************************)
cols == <<"DATETIME", "GAS", "COAL", "NUCLEAR", "WIND", "WIND_EMB", "HYDRO",
          "IMPORTS", "BIOMASS", "OTHER", "SOLAR", "STORAGE",
          "GENERATION", "CARBON_INTENSITY">>

RID == "f93d1835-75bc-43e5-84ad-12472b180a98"

table == "mix"

LookbackDays == 14

\* strftime("%Y-%m-%dT%H:%M:%SZ") keeps whole seconds: 1000 ms each.
MsPerSecond == 1000

ColSet == {cols[j] : j \in 1..Len(cols)}

ColIndex(c) == CHOOSE j \in 1..Len(cols) : cols[j] = c

NA == [isna |-> TRUE, v |-> 0]

Value(n) == [isna |-> FALSE, v |-> n]

(***************************************************************************)
(* Bounds and inputs                                                       *)
(***************************************************************************)
\* The longest list of records one response holds.
MaxBatch == 2

\* The day requests are made on (days since an arbitrary origin).
Clock == {20, 21}

\* DATETIME texts of the remote records: three instants, two of them within
\* the same second, and a text that is no timestamp.
RawTimes == {"2025-10-20T20:30:00.000Z", "2025-10-20T20:30:00.500Z",
             "2025-10-20T20:30:01.000Z", "bad"}

\* A raw record: DATETIME dt, every measurement base, but column col special.
\* With col = "DATETIME" no measurement is special.
RawRecord(dt, base, col, special) ==
    [c \in ColSet |-> IF c = "DATETIME" THEN dt
                      ELSE IF c = col THEN special ELSE base]

\* The records the pipeline runs draw from: plain ones, ones whose GAS is
\* no number, ones whose CARBON_INTENSITY is negative.
Records ==
    {RawRecord(dt, "1.0", "DATETIME", "1.0") : dt \in RawTimes}
    \cup {RawRecord(dt, "2.0", "GAS", "x") : dt \in RawTimes}
    \cup {RawRecord(dt, "2.0", "CARBON_INTENSITY", "-3.0") : dt \in RawTimes}

\* The records the Normalizer is checked on: plain ones, and ones with an
\* unparseable or a negative value in the first or the last measurement.
CleanRecords ==
    {RawRecord(dt, b, "DATETIME", b) : dt \in RawTimes, b \in {"1.0", "2.0"}}
    \cup {RawRecord(dt, "2.0", c, s) :
            dt \in RawTimes, c \in {"GAS", "CARBON_INTENSITY"}, s \in {"x", "-3.0"}}

SeqsUpTo(S, n) == UNION {[1..k -> S] : k \in 0..n}

Batches == SeqsUpTo(Records, MaxBatch)

CleanBatches == SeqsUpTo(CleanRecords, MaxBatch)

\* Status codes of a response that is not 200.
ErrorStatuses == {204, 404, 503}

(***************************************************************************)
(* build_time_window, build_sql_query                                      *)
(***************************************************************************)
build_time_window(now) == <<now - LookbackDays, now>>

build_sql_query(cs, rid, start_iso, end_iso) ==
    [select |-> cs, from |-> rid, lower |-> start_iso, upper |-> end_iso,
     order_by |-> "DATETIME"]

NoWindow == <<0, 0>>

NoSql == [select |-> <<>>, from |-> "", lower |-> 0, upper |-> 0, order_by |-> ""]

(***************************************************************************)
(* to_dataframe_clean                                                      *)
(***************************************************************************)
\* pd.to_datetime(utc=True, errors="coerce") of one text.
to_datetime(s) ==
    CASE s = "2025-10-20T20:30:00.000Z" -> Value(0)
      [] s = "2025-10-20T20:30:00.500Z" -> Value(500)
      [] s = "2025-10-20T20:30:01.000Z" -> Value(1000)
      [] OTHER -> NA

\* pd.to_numeric(errors="coerce") of one text.
to_numeric(s) ==
    CASE s = "1.0" -> Value(1)
      [] s = "2.0" -> Value(2)
      [] s = "-3.0" -> Value(0 - 3)
      [] OTHER -> NA

\* DataFrame.from_records(records)[cols] with the DATETIME column through
\* to_datetime and every other column through to_numeric.  A row keeps its
\* index label idx (the record's position) through the later steps.
Coerce(recs, cs) ==
    [i \in 1..Len(recs) |->
        [idx |-> i,
         cells |-> [c \in {cs[j] : j \in 1..Len(cs)} |->
                       IF c = "DATETIME" THEN to_datetime(recs[i][c])
                       ELSE to_numeric(recs[i][c])]]]

\* df.dropna() without a subset: a row with any NA is dropped.
dropna_any(frame) ==
    SelectSeq(frame, LAMBDA r : \A c \in DOMAIN r.cells : ~r.cells[c].isna)

\* df.dropna(subset=["DATETIME"])
dropna(frame) == SelectSeq(frame, LAMBDA r : ~r.cells["DATETIME"].isna)

RECURSIVE KeepFirst(_, _)
KeepFirst(frame, seen) ==
    IF frame = <<>> THEN <<>>
    ELSE IF Head(frame).cells["DATETIME"] \in seen
         THEN KeepFirst(Tail(frame), seen)
         ELSE <<Head(frame)>>
              \o KeepFirst(Tail(frame), seen \cup {Head(frame).cells["DATETIME"]})

\* df.drop_duplicates(subset=["DATETIME"]): keep="first" is the default.
drop_duplicates(frame) == KeepFirst(frame, {})

RECURSIVE InsertSorted(_, _)
InsertSorted(r, sorted) ==
    IF sorted = <<>> THEN <<r>>
    ELSE IF r.cells["DATETIME"].v < Head(sorted).cells["DATETIME"].v
         THEN <<r>> \o sorted
         ELSE <<Head(sorted)>> \o InsertSorted(r, Tail(sorted))

RECURSIVE SortFrame(_)
SortFrame(frame) ==
    IF frame = <<>> THEN <<>>
    ELSE InsertSorted(frame[Len(frame)], SortFrame(SubSeq(frame, 1, Len(frame) - 1)))

\* df.sort_values("DATETIME")
sort_values(frame) == SortFrame(frame)

\* The stricter cleaning: rows with a negative measurement are dropped too.
to_dataframe_clean_strict(recs, cs) ==
    sort_values(drop_duplicates(
        SelectSeq(dropna(Coerce(recs, cs)),
                  LAMBDA r : \A c \in DOMAIN r.cells :
                                 c = "DATETIME" \/ r.cells[c].isna \/ r.cells[c].v >= 0)))

\* The cleaning that drops every row holding an NA.
to_dataframe_clean_dropna_any(recs, cs) ==
    sort_values(drop_duplicates(dropna_any(Coerce(recs, cs))))

\* to_dataframe_clean: coerce, drop the rows without a DATETIME, drop the
\* duplicates of a DATETIME, sort by DATETIME.  (An empty list of records
\* never gets here: from_records([])[cols] raises KeyError, see Clean.)
to_dataframe_clean(recs, cs) ==
    sort_values(drop_duplicates(dropna(Coerce(recs, cs))))

(***************************************************************************)
(* build_upsert_sql, build_rows                                            *)
(***************************************************************************)
other_cols(cs) == SelectSeq(cs, LAMBDA c : c # "DATETIME")

\* INSERT INTO table (col_list) VALUES (?,...) ON CONFLICT(DATETIME)
\* DO UPDATE SET c = excluded.c, for every column c but DATETIME.
build_upsert_sql(cs, tbl) ==
    [into |-> tbl, col_list |-> cs, conflict |-> "DATETIME",
     updates |-> other_cols(cs)]

NoStatement == [into |-> "", col_list |-> <<>>, conflict |-> "", updates |-> <<>>]

\* r["DATETIME"].strftime("%Y-%m-%dT%H:%M:%SZ"): the fraction of a second is cut.
strftime(ts) == Value(ts.v \div MsPerSecond)

build_rows(frame, cs) ==
    [k \in 1..Len(frame) |->
        [j \in 1..Len(cs) |->
            IF cs[j] = "DATETIME" THEN strftime(frame[k].cells["DATETIME"])
            ELSE frame[k].cells[cs[j]]]]

(***************************************************************************)
(* The sqlite table                                                        *)
(***************************************************************************)
\* One parameter row bound to the statement's columns.
Bind(stmt, row) ==
    [c \in {stmt.col_list[j] : j \in 1..Len(stmt.col_list)} |->
        row[CHOOSE j \in 1..Len(stmt.col_list) : stmt.col_list[j] = c]]

\* A table without a key: no row ever conflicts.
ConflictRowsNone(tbl, stmt, new) == {}

\* The rows of the table that hold the new row's PRIMARY KEY.
ConflictRows(tbl, stmt, new) ==
    {i \in 1..Len(tbl) : tbl[i][stmt.conflict] = new[stmt.conflict]}

\* DO UPDATE SET c = COALESCE(excluded.c, c): a NULL keeps the stored value.
OnConflictCoalesce(old, new, stmt) ==
    [c \in DOMAIN old |->
        IF (\E j \in 1..Len(stmt.updates) : stmt.updates[j] = c) /\ ~new[c].isna
        THEN new[c] ELSE old[c]]

\* DO UPDATE SET c = c + excluded.c: the new value is added to the stored one.
OnConflictAccumulate(old, new, stmt) ==
    [c \in DOMAIN old |->
        IF \E j \in 1..Len(stmt.updates) : stmt.updates[j] = c
        THEN (IF old[c].isna \/ new[c].isna THEN NA
              ELSE Value((old[c].v + new[c].v) % 8))
        ELSE old[c]]

\* DO UPDATE SET c = excluded.c for every c of the statement's updates.
OnConflictUpdate(old, new, stmt) ==
    [c \in DOMAIN old |->
        IF \E j \in 1..Len(stmt.updates) : stmt.updates[j] = c
        THEN new[c] ELSE old[c]]

\* One execution of the upsert statement.
ExecuteUpsert(tbl, stmt, row) ==
    LET new == Bind(stmt, row)
        hit == ConflictRows(tbl, stmt, new)
    IN  IF hit = {} THEN Append(tbl, new)
        ELSE [i \in 1..Len(tbl) |->
                 IF i \in hit THEN OnConflictUpdate(tbl[i], new, stmt) ELSE tbl[i]]

\* cur.executemany(upsert_sql, rows): the rows one after the other.
RECURSIVE Executemany(_, _, _)
Executemany(tbl, stmt, rs) ==
    IF rs = <<>> THEN tbl
    ELSE Executemany(ExecuteUpsert(tbl, stmt, Head(rs)), stmt, Tail(rs))

NoTxn == [active |-> FALSE, rows |-> <<>>]

\* The connection goes away with its transaction open and what the
\* transaction wrote is kept (a connection in autocommit mode).
RollbackKeepsWrites(file, t) ==
    IF t.active THEN [file EXCEPT !.rows = t.rows] ELSE file

\* The connection goes away without commit(): sqlite rolls the open
\* transaction back and the file stays as committed.
Rollback(file, t) == file

\* CREATE TABLE IF NOT EXISTS mix (DATETIME TEXT PRIMARY KEY, ...): python's
\* sqlite3 opens no transaction for it, so it is committed as it runs.
ensure_table(file) ==
    IF file.exists THEN file ELSE [exists |-> TRUE, rows |-> <<>>]

NoFile == [exists |-> FALSE, rows |-> <<>>]

NoLast == [valid |-> FALSE, records |-> <<>>, disk |-> NoFile]

(***************************************************************************)
(* main                                                                    *)
(***************************************************************************)
\* A main() that opens the database and begins to write before it fetches.
MainOrderWriteThenFetch ==
    <<"start", "query", "connect", "ensure", "fetch", "clean", "build",
      "execute", "commit", "close", "report">>

\* The statements of main() in the order they are written.
MainOrder ==
    <<"start", "query", "fetch", "clean", "connect", "ensure", "build",
      "execute", "commit", "close", "report">>

\* The statement after p; the process exits after the last one.
NextPc(p) ==
    LET k == CHOOSE j \in 1..Len(MainOrder) : MainOrder[j] = p
    IN  IF k = Len(MainOrder) THEN "exited" ELSE MainOrder[k + 1]

Init ==
    /\ pc = MainOrder[1]
    /\ window = NoWindow
    /\ sql = NoSql
    /\ remote = <<>>
    /\ status = 0
    /\ records = <<>>
    /\ df = <<>>
    /\ upsert_sql = NoStatement
    /\ rows = <<>>
    /\ con = "none"
    /\ txn = NoTxn
    /\ disk = NoFile
    /\ out = <<>>
    /\ exitcode = 0 - 1
    /\ err = ""
    /\ pre = NoFile
    /\ last = NoLast

\* The remote resource gains a record.
RemotePublish ==
    /\ pc = MainOrder[1]
    /\ Len(remote) < MaxBatch
    /\ \E r \in Records : remote' = Append(remote, r)
    /\ last' = NoLast
    /\ UNCHANGED <<pc, window, sql, status, records, df, upsert_sql, rows, con,
                   txn, disk, out, exitcode, err, pre>>

\* The remote resource loses its latest record.
RemoteRetract ==
    /\ pc = MainOrder[1]
    /\ remote # <<>>
    /\ remote' = SubSeq(remote, 1, Len(remote) - 1)
    /\ last' = NoLast
    /\ UNCHANGED <<pc, window, sql, status, records, df, upsert_sql, rows, con,
                   txn, disk, out, exitcode, err, pre>>

\* start_iso, end_iso = build_time_window()
BuildTimeWindow ==
    /\ pc = "start"
    /\ \E now \in Clock : window' = build_time_window(now)
    /\ pc' = NextPc("start")
    /\ UNCHANGED <<sql, remote, status, records, df, upsert_sql, rows, con, txn,
                   disk, out, exitcode, err, pre, last>>

\* sql = build_sql_query(cols, RID, start_iso, end_iso)
BuildSqlQuery ==
    /\ pc = "query"
    /\ sql' = build_sql_query(cols, RID, window[1], window[2])
    /\ pc' = NextPc("query")
    /\ UNCHANGED <<window, remote, status, records, df, upsert_sql, rows, con,
                   txn, disk, out, exitcode, err, pre, last>>

\* fetch_records_from_api: status 200.  The window and the query are not
\* read again after the request.
FetchOk ==
    /\ pc = "fetch"
    /\ status' = 200
    /\ records' = remote
    /\ out' = IF remote = <<>>
              THEN Append(out, [msg |-> "No rows returned", n |-> 0])
              ELSE out
    /\ window' = NoWindow
    /\ sql' = NoSql
    /\ pc' = NextPc("fetch")
    /\ UNCHANGED <<remote, df, upsert_sql, rows, con, txn, disk, exitcode, err,
                   pre, last>>

\* fetch_records_from_api: any other status raises SystemExit("HTTP <status>").
FetchHttpError ==
    /\ pc = "fetch"
    /\ \E code \in ErrorStatuses : status' = code
    /\ err' = "SystemExit"
    /\ window' = NoWindow
    /\ sql' = NoSql
    /\ pc' = "raised"
    /\ UNCHANGED <<remote, records, df, upsert_sql, rows, con, txn, disk, out,
                   exitcode, pre, last>>

\* df = to_dataframe_clean(records, cols)
Clean ==
    /\ pc = "clean"
    /\ records # <<>>
    /\ df' = to_dataframe_clean(records, cols)
    /\ pc' = NextPc("clean")
    /\ UNCHANGED <<window, sql, remote, status, records, upsert_sql, rows, con,
                   txn, disk, out, exitcode, err, pre, last>>

\* to_dataframe_clean([], cols): DataFrame.from_records([]) has no columns and
\* selecting [cols] from it raises KeyError.
CleanRaises ==
    /\ pc = "clean"
    /\ records = <<>>
    /\ err' = "KeyError"
    /\ pc' = "raised"
    /\ UNCHANGED <<window, sql, remote, status, records, df, upsert_sql, rows,
                   con, txn, disk, out, exitcode, pre, last>>

\* con = sqlite3.connect(dp_path); cur = con.cursor()
Connect ==
    /\ pc = "connect"
    /\ con' = "open"
    /\ pc' = NextPc("connect")
    /\ UNCHANGED <<window, sql, remote, status, records, df, upsert_sql, rows,
                   txn, disk, out, exitcode, err, pre, last>>

\* ensure_table(cur, table)
EnsureTable ==
    /\ pc = "ensure"
    /\ disk' = ensure_table(disk)
    /\ pc' = NextPc("ensure")
    /\ UNCHANGED <<window, sql, remote, status, records, df, upsert_sql, rows,
                   con, txn, out, exitcode, err, pre, last>>

\* upsert_sql = build_upsert_sql(cols, table); rows = build_rows(df, cols)
BuildStatement ==
    /\ pc = "build"
    /\ upsert_sql' = build_upsert_sql(cols, table)
    /\ rows' = build_rows(df, cols)
    /\ pc' = NextPc("build")
    /\ UNCHANGED <<window, sql, remote, status, records, df, con, txn, disk, out,
                   exitcode, err, pre, last>>

\* cur.executemany(upsert_sql, rows): the first INSERT begins a transaction.
ExecutemanyOk ==
    /\ pc = "execute"
    /\ txn' = [active |-> rows # <<>>,
               rows |-> Executemany(disk.rows, upsert_sql, rows)]
    /\ pc' = NextPc("execute")
    /\ UNCHANGED <<window, sql, remote, status, records, df, upsert_sql, rows,
                   con, disk, out, exitcode, err, pre, last>>

\* cur.executemany fails on row k + 1, after k rows were written.
ExecutemanyFails ==
    /\ pc = "execute"
    /\ \E k \in 0..(Len(rows) - 1) :
          txn' = [active |-> TRUE,
                  rows |-> Executemany(disk.rows, upsert_sql, SubSeq(rows, 1, k))]
    /\ err' = "sqlite3.Error"
    /\ pc' = "raised"
    /\ UNCHANGED <<window, sql, remote, status, records, df, upsert_sql, rows,
                   con, disk, out, exitcode, pre, last>>

\* con.commit()
Commit ==
    /\ pc = "commit"
    /\ disk' = IF txn.active THEN [disk EXCEPT !.rows = txn.rows] ELSE disk
    /\ txn' = NoTxn
    /\ pc' = NextPc("commit")
    /\ UNCHANGED <<window, sql, remote, status, records, df, upsert_sql, rows,
                   con, out, exitcode, err, pre, last>>

\* con.commit() fails (the file is locked by a reader, the disk is full).
CommitFails ==
    /\ pc = "commit"
    /\ txn.active
    /\ err' = "sqlite3.Error"
    /\ pc' = "raised"
    /\ UNCHANGED <<window, sql, remote, status, records, df, upsert_sql, rows,
                   con, txn, disk, out, exitcode, pre, last>>

\* con.close()
Close ==
    /\ pc = "close"
    /\ con' = "closed"
    /\ pc' = NextPc("close")
    /\ UNCHANGED <<window, sql, remote, status, records, df, upsert_sql, rows,
                   txn, disk, out, exitcode, err, pre, last>>

\* print(f"Upserted {len(rows)} rows ..."), and main() returns.
Report ==
    /\ pc = "report"
    /\ out' = Append(out, [msg |-> "Upserted rows", n |-> Len(rows)])
    /\ exitcode' = 0
    /\ last' = [valid |-> TRUE, records |-> records, disk |-> disk]
    /\ pc' = NextPc("report")
    /\ UNCHANGED <<window, sql, remote, status, records, df, upsert_sql, rows,
                   con, txn, disk, err, pre>>

\* An exception nobody catches: the interpreter exits with status 1 and the
\* connection goes away without commit().
Unwind ==
    /\ pc = "raised"
    /\ disk' = Rollback(disk, txn)
    /\ txn' = NoTxn
    /\ con' = IF con = "open" THEN "closed" ELSE con
    /\ exitcode' = 1
    /\ pc' = "exited"
    /\ last' = IF err = "KeyError"
               THEN [valid |-> TRUE, records |-> records, disk |-> Rollback(disk, txn)]
               ELSE last
    /\ UNCHANGED <<window, sql, remote, status, records, df, upsert_sql, rows,
                   out, err, pre>>

\* The pipeline is run again.
Invoke ==
    /\ pc = "exited"
    /\ pc' = MainOrder[1]
    /\ window' = NoWindow
    /\ sql' = NoSql
    /\ status' = 0
    /\ records' = <<>>
    /\ df' = <<>>
    /\ upsert_sql' = NoStatement
    /\ rows' = <<>>
    /\ con' = "none"
    /\ txn' = NoTxn
    /\ out' = <<>>
    /\ exitcode' = 0 - 1
    /\ err' = ""
    /\ pre' = disk
    /\ UNCHANGED <<remote, disk, last>>

Next ==
    \/ RemotePublish
    \/ RemoteRetract
    \/ BuildTimeWindow
    \/ BuildSqlQuery
    \/ FetchOk
    \/ FetchHttpError
    \/ Clean
    \/ CleanRaises
    \/ Connect
    \/ EnsureTable
    \/ BuildStatement
    \/ ExecutemanyOk
    \/ ExecutemanyFails
    \/ Commit
    \/ CommitFails
    \/ Close
    \/ Report
    \/ Unwind
    \/ Invoke

Spec == Init /\ [][Next]_vars

(***************************************************************************)
(* The Normalizer alone: to_dataframe_clean and build_rows applied to      *)
(* every batch of CleanRecords.                                            *)
(***************************************************************************)
InitClean ==
    /\ pc = "normalize"
    /\ records \in CleanBatches
    /\ window = NoWindow
    /\ sql = NoSql
    /\ remote = <<>>
    /\ status = 200
    /\ df = <<>>
    /\ upsert_sql = NoStatement
    /\ rows = <<>>
    /\ con = "none"
    /\ txn = NoTxn
    /\ disk = NoFile
    /\ out = <<>>
    /\ exitcode = 0 - 1
    /\ err = ""
    /\ pre = NoFile
    /\ last = NoLast

Normalize ==
    /\ pc = "normalize"
    /\ records # <<>>
    /\ df' = to_dataframe_clean(records, cols)
    /\ pc' = "rows"
    /\ UNCHANGED <<window, sql, remote, status, records, upsert_sql, rows, con,
                   txn, disk, out, exitcode, err, pre, last>>

NormalizeRaises ==
    /\ pc = "normalize"
    /\ records = <<>>
    /\ err' = "KeyError"
    /\ pc' = "raised"
    /\ UNCHANGED <<window, sql, remote, status, records, df, upsert_sql, rows,
                   con, txn, disk, out, exitcode, pre, last>>

BuildRows ==
    /\ pc = "rows"
    /\ rows' = build_rows(df, cols)
    /\ pc' = "cleaned"
    /\ UNCHANGED <<window, sql, remote, status, records, df, upsert_sql, con,
                   txn, disk, out, exitcode, err, pre, last>>

NextClean == Normalize \/ NormalizeRaises \/ BuildRows

SpecClean == InitClean /\ [][NextClean]_vars

(***************************************************************************)
(* Properties                                                              *)
(***************************************************************************)
Elems(f) == {f[k] : k \in 1..Len(f)}

Measurements == ColSet \ {"DATETIME"}

KeysUnique(tbl) ==
    \A i, j \in 1..Len(tbl) : i # j => tbl[i]["DATETIME"] # tbl[j]["DATETIME"]

\* The run has committed its batch.
Committed == pc \in {"close", "report"} \/ (pc = "exited" /\ exitcode = 0)

\* The run has cleaned the records it fetched.
Cleaned == records # <<>> /\ pc \notin {"start", "query", "fetch", "clean"}

\* Record i is the first of the batch with its instant.
FirstOfInstant(i) ==
    /\ ~to_datetime(records[i]["DATETIME"]).isna
    /\ \A j \in 1..(i - 1) :
          to_datetime(records[j]["DATETIME"]) # to_datetime(records[i]["DATETIME"])

\* Row k is the last of the parameter rows with its key.
LastOfKey(k) == \A m \in (k + 1)..Len(rows) : rows[m][1] # rows[k][1]

\* C1: in every reachable state the table, as committed and as the open
\* transaction sees it, holds at most one row per DATETIME key.
C1_OneRowPerKey == KeysUnique(disk.rows) /\ KeysUnique(txn.rows)

\* A run on an existing table has committed a batch holding the same key
\* twice, and the table holds two keys.
C1_Witness ==
    /\ pc = "close"
    /\ pre.exists /\ pre.rows # <<>>
    /\ Len(disk.rows) = 2
    /\ \E k, m \in 1..Len(rows) : k # m /\ rows[k][1] = rows[m][1]

\* C2: after a run has committed, the table holds for every key of the batch
\* exactly one row, and each of its thirteen measurements is the value (a
\* number or NULL) of the last parameter row with that key, whatever the
\* table held for that key before.
C2_UpsertOverwrites ==
    Committed =>
        \A k \in 1..Len(rows) :
            LastOfKey(k) =>
                /\ Cardinality({i \in 1..Len(disk.rows) :
                                   disk.rows[i]["DATETIME"] = rows[k][1]}) = 1
                /\ \A i \in 1..Len(disk.rows) :
                      disk.rows[i]["DATETIME"] = rows[k][1] =>
                          \A c \in Measurements :
                              disk.rows[i][c] = rows[k][ColIndex(c)]

\* A row stored by an earlier run with numbers in every column has been
\* upserted again with a NULL GAS and another COAL.
C2_Witness ==
    /\ pc = "close"
    /\ \E i \in 1..Len(pre.rows), k \in 1..Len(rows), n \in 1..Len(disk.rows) :
          /\ pre.rows[i]["DATETIME"] = rows[k][1]
          /\ disk.rows[n]["DATETIME"] = rows[k][1]
          /\ \A c \in Measurements : ~pre.rows[i][c].isna
          /\ disk.rows[n]["GAS"].isna
          /\ disk.rows[n]["COAL"] # pre.rows[i]["COAL"]

\* C3: a run that fetched the records the previous run fetched ends with the
\* table exactly as the previous run left it: the same rows in the same
\* order, so the same keys, the same row count and the same values.
C3_Idempotent ==
    (last.valid /\ records = last.records /\ pc \in {"close", "report", "exited"})
        => /\ disk = last.disk
           /\ Len(disk.rows) = Len(last.disk.rows)
           /\ {r["DATETIME"] : r \in Elems(disk.rows)}
                 = {r["DATETIME"] : r \in Elems(last.disk.rows)}

\* A second run on unchanged remote data has committed a batch of two rows
\* to a table that held rows before the first of the two runs.
C3_Witness ==
    /\ pc = "close"
    /\ last.valid /\ records = last.records
    /\ Len(rows) = 2
    /\ Len(disk.rows) = 2
    /\ pre = last.disk

\* C4 as stated: a run that fails leaves the database exactly as it was when
\* the run started.
C4_FailedRunLeavesStoreAsItWas ==
    (pc = "exited" /\ exitcode # 0) => disk = pre

\* C4 as amended: a response that is not 200 ends the run with a non-zero
\* exit before the database is opened; a run that fails leaves the rows of
\* the table as they were, and all it may leave behind is the empty table
\* that ensure_table created; in every state the committed rows are those
\* before the run, or the run has committed and every row of the batch is
\* there.
C4_FailedRunKeepsRows ==
    /\ (pc = "exited" /\ status \notin {0, 200})
          => (exitcode # 0 /\ disk = pre /\ con = "none")
    /\ (pc = "exited" /\ exitcode # 0)
          => (disk.rows = pre.rows /\ disk \in {pre, ensure_table(pre)})
    /\ disk.rows # pre.rows
          => /\ Committed
             /\ \A k \in 1..Len(rows) :
                   \E i \in 1..Len(disk.rows) : disk.rows[i]["DATETIME"] = rows[k][1]

\* A run whose write failed has ended: its batch of two keys is not in the
\* table, which held a row before.
C4_Witness ==
    /\ pc = "exited" /\ exitcode # 0
    /\ err = "sqlite3.Error"
    /\ Len(rows) = 2 /\ rows[1][1] # rows[2][1]
    /\ pre.rows # <<>>
    /\ disk.rows = pre.rows
    /\ \E k \in 1..Len(rows) :
          \A i \in 1..Len(disk.rows) : disk.rows[i]["DATETIME"] # rows[k][1]

\* C5: a run whose request succeeded with no records ends with exit status 0,
\* has printed the "no rows" notice and leaves the database as it was.
C5_EmptyRecordsEndCleanly ==
    (pc = "exited" /\ status = 200 /\ records = <<>>)
        => /\ exitcode = 0
           /\ disk = pre
           /\ \E m \in Elems(out) : m.msg = "No rows returned"

\* C6: the cleaned rows hold, for every instant of the batch, exactly one row,
\* and it is the last record of the batch with that instant.
C6_LastSeenWins ==
    pc = "cleaned" =>
        \A i \in 1..Len(records) :
            (/\ ~to_datetime(records[i]["DATETIME"]).isna
             /\ \A j \in (i + 1)..Len(records) :
                   to_datetime(records[j]["DATETIME"])
                       # to_datetime(records[i]["DATETIME"]))
            => /\ \E r \in Elems(df) :
                     /\ r.idx = i
                     /\ \A c \in Measurements : r.cells[c] = to_numeric(records[i][c])
               /\ Cardinality({k \in 1..Len(df) :
                     df[k].cells["DATETIME"] = to_datetime(records[i]["DATETIME"])}) = 1

\* C7: the parameter rows handed to the upsert are strictly ascending by
\* their key, the seconds-precision text of the timestamp.
C7_RowsStrictlyAscendingByKey ==
    pc = "cleaned" =>
        \A k \in 1..(Len(rows) - 1) : rows[k][1].v < rows[k + 1][1].v

\* C8: a record is in the cleaned rows exactly when its timestamp parses and
\* no earlier record has its instant, whatever its measurements are; a
\* measurement that is no number is NA in the row that is kept; no cleaned
\* row comes from a record whose timestamp does not parse.
C8_NullSafety ==
    pc \in {"rows", "cleaned"} =>
        /\ \A i \in 1..Len(records) :
              /\ to_datetime(records[i]["DATETIME"]).isna
                    => ~(\E r \in Elems(df) : r.idx = i)
              /\ FirstOfInstant(i)
                    => \E r \in Elems(df) :
                          /\ r.idx = i
                          /\ \A c \in Measurements :
                                r.cells[c] = to_numeric(records[i][c])
        /\ \A r \in Elems(df) : ~r.cells["DATETIME"].isna

\* A batch of a record whose timestamp is no timestamp and a record whose
\* GAS is no number has been cleaned: one row, with an NA.
C8_Witness ==
    /\ pc = "cleaned"
    /\ Len(records) = 2 /\ Len(df) = 1
    /\ \E i \in 1..Len(records) : to_datetime(records[i]["DATETIME"]).isna
    /\ df[1].cells["GAS"].isna
    /\ records[df[1].idx]["GAS"] = "x"

\* C9 as stated: no cleaned row and no stored row holds a negative
\* measurement.
C9_NegativeRowsAbsent ==
    /\ \A r \in Elems(df) : \A c \in Measurements : r.cells[c].v >= 0
    /\ \A r \in Elems(disk.rows) : \A c \in Measurements : r[c].v >= 0

\* C9 as amended: a record with a negative measurement whose timestamp parses
\* and whose instant no earlier record has is kept in the cleaned rows with
\* the negative value, and a committed run has written the negative values
\* of the last row of each key to the table.
C9_NegativeRowsKept ==
    /\ Cleaned =>
          \A i \in 1..Len(records) : \A c \in Measurements :
              (FirstOfInstant(i) /\ to_numeric(records[i][c]).v < 0)
                  => \E r \in Elems(df) :
                        r.idx = i /\ r.cells[c] = to_numeric(records[i][c])
    /\ Committed =>
          \A k \in 1..Len(rows) : \A c \in Measurements :
              (LastOfKey(k) /\ rows[k][ColIndex(c)].v < 0)
                  => \E r \in Elems(disk.rows) :
                        r["DATETIME"] = rows[k][1] /\ r[c] = rows[k][ColIndex(c)]

\* A run has committed a row with a negative CARBON_INTENSITY.
C9_Witness ==
    /\ pc = "close"
    /\ \E i \in 1..Len(records) :
          FirstOfInstant(i) /\ to_numeric(records[i]["CARBON_INTENSITY"]).v < 0
    /\ \E r \in Elems(disk.rows) : r["CARBON_INTENSITY"].v < 0

\* C10: up to the end of the cleaning no connection is open and no
\* transaction begun; the request is made with the query built from the
\* window; a connection is open only after a 200 response whose records were
\* cleaned; a transaction is open only between executemany and commit; the
\* row count is reported only with the transaction committed and the
\* connection closed.
C10_FetchThenWrite ==
    /\ pc \in {"start", "query", "fetch", "clean"} => (con = "none" /\ ~txn.active)
    /\ pc = "fetch" =>
          (window # NoWindow /\ sql = build_sql_query(cols, RID, window[1], window[2]))
    /\ con = "open" =>
          (status = 200 /\ records # <<>> /\ df = to_dataframe_clean(records, cols))
    /\ txn.active => (con = "open" /\ pc \in {"commit", "raised"})
    /\ (pc = "report" \/ (pc = "exited" /\ exitcode = 0))
          => (con = "closed" /\ ~txn.active)
    /\ (\E m \in Elems(out) : m.msg = "Upserted rows")
          => (con = "closed" /\ ~txn.active /\ pc = "exited")

\* A run is about to report its row count: its batch is committed and the
\* connection closed.
C10_Witness ==
    /\ pc = "report"
    /\ con = "closed"
    /\ rows # <<>>
    /\ disk.rows # pre.rows

====
